---- MODULE Spec2Model ----
(***************************************************************************)
(* Model of parser/parser.py: parsing of signal exchange block instances   *)
(* from a compiled FMU, generation of the wrapper Modelica model and       *)
(* export of the wrapper FMU and the KPI json.                             *)
(*                                                                         *)
(* Strings are sequences of tokens.  The tokens of a variable name are its *)
(* characters, except that each of the three marker words is one token;    *)
(* '.' and '_' and ',' are tokens of their own.                            *)
(***************************************************************************)
EXTENDS Integers, Sequences, FiniteSets, TLC

VARIABLES pc, err, disk, fmu, allvars, idx, instances, kpis, ret,
          wrapped_mo, kpis_json, call

vars == <<pc, err, disk, fmu, allvars, idx, instances, kpis, ret,
          wrapped_mo, kpis_json, call>>

pipeline_vars == <<pc, err, disk, fmu, allvars, idx, instances, kpis, ret,
                   wrapped_mo, kpis_json>>

(***************************************************************************)
(* Bounds                                                                  *)
(***************************************************************************)
\* longest list of constant/parameter variables an FMU exposes
MaxVars == 2
\* longest instance path (in tokens) handed to _make_var_name on its own
MaxLen == 3

(***************************************************************************)
(* String operations of the Python runtime used by the parser              *)
(***************************************************************************)
\* marker in var  (substring test; a marker word is one token)
Contains(s, tok) == \E i \in 1..Len(s) : s[i] = tok

\* index of the first occurrence of tok in s, 0 when there is none
FirstIndex(s, tok) ==
    IF Contains(s, tok)
    THEN CHOOSE i \in 1..Len(s) : s[i] = tok /\ \A j \in 1..(i-1) : s[j] # tok
    ELSE 0

\* s.split(sep): always at least one piece, empty pieces are kept
RECURSIVE Split(_, _)
Split(s, sep) ==
    IF ~Contains(s, sep)
    THEN <<s>>
    ELSE LET i == FirstIndex(s, sep)
         IN  <<SubSeq(s, 1, i-1)>> \o Split(SubSeq(s, i+1, Len(s)), sep)

\* sep.join(parts)
RECURSIVE Join(_, _)
Join(parts, sep) ==
    IF parts = <<>> THEN <<>>
    ELSE IF Len(parts) = 1 THEN parts[1]
    ELSE parts[1] \o <<sep>> \o Join(Tail(parts), sep)

\* s.replace(old, new)
Replace(s, old, new) == [i \in 1..Len(s) |-> IF s[i] = old THEN new ELSE s[i]]

\* parts[:-1]
AllButLast(parts) == SubSeq(parts, 1, Len(parts) - 1)

(***************************************************************************)
(* _make_var_name                                                          *)
(***************************************************************************)
\* A style argument is a Python string object: its value, and whether it is
\* the interned object that a literal of that value in the source denotes.
StyleValues == {"input_signal", "input_activate", "output", "bogus"}
StyleObjs == [val : StyleValues, interned : BOOLEAN]

\* the object a string literal of the module denotes
Literal(v) == [val |-> v, interned |-> TRUE]

\* style is '<lit>' : object identity with the literal
IsLiteral(style, lit) == style.interned /\ style.val = lit

\* result of a call: a name, or the ValueError('Style ... unknown.')
Named(n) == [raised |-> FALSE, name |-> n]
UnknownStyle == [raised |-> TRUE, name |-> <<>>]

MakeVarName(block, style) ==
    LET name == Replace(block, ".", "_")
    IN  IF IsLiteral(style, "input_signal") THEN Named(name \o <<"_", "u">>)
        ELSE IF IsLiteral(style, "input_activate") THEN Named(name \o <<"_", "activate">>)
        ELSE IF IsLiteral(style, "output") THEN Named(name \o <<"_", "y">>)
        ELSE UnknownStyle

(***************************************************************************)
(* parse_instances: classification of one variable                         *)
(***************************************************************************)
Label_swapped(var) ==
    IF Contains(var, "boptestRead") THEN "Read"
    ELSE IF Contains(var, "boptestOverwrite") THEN "Overwrite"
    ELSE IF Contains(var, "KPIs") THEN "kpi"
    ELSE "continue"

\* the if/elif chain of the loop body; "continue" skips the variable
Label(var) ==
    IF Contains(var, "boptestOverwrite") THEN "Overwrite"
    ELSE IF Contains(var, "boptestRead") THEN "Read"
    ELSE IF Contains(var, "KPIs") THEN "kpi"
    ELSE "continue"

\* '.'.join(var.split('.')[:-1])
InstanceOf(var) == Join(AllButLast(Split(var, ".")), ".")

AddKpi_noskip(k, kpi, outname) ==
    IF kpi \in DOMAIN k
    THEN [k EXCEPT ![kpi] = Append(@, outname)]
    ELSE k @@ (kpi :> <<outname>>)

\* one iteration of the loop over the comma-separated value.  The tokens are
\* str objects made by str.split, whose empty result is the interpreter's one
\* empty string, so "kpi is ''" holds exactly for the empty token.
AddKpi(k, kpi, outname) ==
    IF kpi = <<>> THEN k
    ELSE IF kpi \in DOMAIN k
    THEN [k EXCEPT ![kpi] = Append(@, outname)]
    ELSE k @@ (kpi :> <<outname>>)

\* for kpi in fmu.get(var)[0].split(','): ...
RECURSIVE AddKpis(_, _, _)
AddKpis(k, toks, outname) ==
    IF toks = <<>> THEN k
    ELSE AddKpis(AddKpi(k, Head(toks), outname), Tail(toks), outname)

(***************************************************************************)
(* write_wrapper: the text written to wrapped.mo, one tuple per f.write    *)
(***************************************************************************)
Range(s) == {s[i] : i \in 1..Len(s)}

Header == <<"model wrapped">>
InputComment == <<"// Input overwrite">>
ReadComment == <<"// Out read">>
ModelComment == <<"// Original model">>
OpenMod(model_path) == <<"mod(", model_path>>
CloseMod == <<") Original model with overwrites;">>
Comma == <<",">>
Footer == <<"end wrapped;">>

\* the dictionaries filled by the first loop
InputSignals(over) ==
    [b \in Range(over) |-> MakeVarName(b, Literal("input_signal")).name]
InputActivate(over) ==
    [b \in Range(over) |-> MakeVarName(b, Literal("input_activate")).name]

\* RealInput <name> "Signal for overwrite block <block>";
\* BooleanInput <name> "Activation for overwrite block <block>";
RECURSIVE OverwriteDecls(_)
OverwriteDecls(over) ==
    IF over = <<>> THEN <<>>
    ELSE LET block == Head(over)
         IN  << <<"RealInput", MakeVarName(block, Literal("input_signal")).name, block>>,
                <<"BooleanInput", MakeVarName(block, Literal("input_activate")).name, block>> >>
             \o OverwriteDecls(Tail(over))

ReadDecl_signal(block) ==
    <<"RealOutput", MakeVarName(block, Literal("input_signal")).name, block>>

\* RealOutput <name> = mod.<block>.y "Measured signal for <block>";
ReadDecl(block) ==
    <<"RealOutput", MakeVarName(block, Literal("output")).name, block>>

RECURSIVE ReadDecls(_)
ReadDecls(read) ==
    IF read = <<>> THEN <<>>
    ELSE <<ReadDecl(Head(read))>> \o ReadDecls(Tail(read))

IsLast_first(i, n) == i = 1

\* i == len(instances['Overwrite'])-1, with i counted from 1 here
IsLast(i, n) == i = n

\* <block>(uExt(y=<signal>),activate(y=<activate>)) followed by the closing
\* on the last iteration and by a comma otherwise
RECURSIVE Connections(_, _)
Connections(over, i) ==
    IF i > Len(over) THEN <<>>
    ELSE LET block == over[i]
         IN  << <<"connect", block, InputSignals(over)[block], InputActivate(over)[block]>>,
                IF IsLast(i, Len(over)) THEN CloseMod ELSE Comma >>
             \o Connections(over, i + 1)

WrapperText(model_path, inst) ==
    <<Header, InputComment>>
    \o OverwriteDecls(inst.Overwrite)
    \o <<ReadComment>>
    \o ReadDecls(inst.Read)
    \o <<ModelComment, OpenMod(model_path)>>
    \o Connections(inst.Overwrite, 1)
    \o <<Footer>>

(***************************************************************************)
(* Inputs: the model compiled and the variables its FMU can expose         *)
(***************************************************************************)
\* model_path of the __main__ block
ModelPath == <<"SimpleRC">>

\* files in the working directory
FmuFile == "SimpleRC.fmu"
LogFile == "SimpleRC_log.txt"
WrappedMo == "wrapped.mo"
WrappedFmu == "wrapped.fmu"
WrappedLog == "wrapped_log.txt"
KpisJson == "kpis.json"

Versions == {"1.0", "2.0"}

Insts == { <<"a">>, <<"a", ".", "b">>, <<"a", "_", "b">> }

VarNames ==
    { i \o <<".">> \o p :
        i \in Insts,
        p \in { <<"boptestOverwrite">>, <<"boptestRead">>, <<"KPIs">>, <<"p">> } }
    \cup { <<"a", ".", "boptestOverwrite", "boptestRead">>,
           <<"a", ".", "boptestOverwrite", "KPIs">>,
           <<"a", ".", "boptestRead", "KPIs">>,
           <<"boptestRead", ".", "p">>,
           <<"KPIs">> }

\* values of string parameters: comma-separated KPI names
KpiValues ==
    { <<>>, <<"e">>, <<"e", ",", "c">>, <<"e", ",", ",", "e">>, <<",", "c">> }

\* a variable of the FMU with the value fmu.get returns for it; only the
\* value of a string parameter is ever split, the others carry none
FmuVars ==
    { v \in [name : VarNames, value : KpiValues] :
        ~Contains(v.name, "KPIs") => v.value = <<>> }

\* the lists get_model_variables(...).keys() can return: names are unique in
\* an FMU, their order is that of a dictionary
VarLists ==
    { l \in UNION { [1..n -> FmuVars] : n \in 0..MaxVars } :
        \A i, j \in 1..Len(l) : i # j => l[i].name # l[j].name }

\* instance paths handed to _make_var_name when it is called on its own
PathTokens == {"a", ".", "_"}
Paths ==
    { p \in UNION { [1..n -> PathTokens] : n \in 1..MaxLen } :
        /\ p[1] # "." /\ p[Len(p)] # "."
        /\ \A i \in 1..(Len(p)-1) : ~(p[i] = "." /\ p[i+1] = ".") }

(***************************************************************************)
(* State after construction                                                *)
(***************************************************************************)
NoInstances == [Overwrite |-> <<>>, Read |-> <<>>]

Init ==
    /\ pc = "start"
    /\ err = "none"
    /\ disk = {}
    /\ fmu = <<>>
    /\ allvars = <<>>
    /\ idx = 0
    /\ instances = NoInstances
    /\ kpis = <<>>
    /\ ret = <<>>
    /\ wrapped_mo = <<>>
    /\ kpis_json = <<>>
    /\ call = <<>>

(***************************************************************************)
(* parse_instances                                                         *)
(***************************************************************************)
\* compile_fmu(model_path, file_name) writes the FMU and its log
Compile1Ok ==
    /\ pc = "start"
    /\ \E v \in Versions : fmu' = <<v>>
    /\ disk' = disk \cup {FmuFile, LogFile}
    /\ pc' = "compiled"
    /\ UNCHANGED <<err, allvars, idx, instances, kpis, ret, wrapped_mo, kpis_json, call>>

\* compile_fmu raises the compiler's error
Compile1Fail ==
    /\ pc = "start"
    /\ pc' = "failed"
    /\ err' = "CompilerError"
    /\ UNCHANGED <<disk, fmu, allvars, idx, instances, kpis, ret, wrapped_mo, kpis_json, call>>

VersionSupported_any(v) == TRUE

\* fmu.get_version() != '2.0' raises
VersionSupported(v) == v = "2.0"

CheckVersionFail ==
    /\ pc = "compiled"
    /\ ~VersionSupported(fmu[1])
    /\ pc' = "failed"
    /\ err' = "UnsupportedVersion"
    /\ UNCHANGED <<disk, fmu, allvars, idx, instances, kpis, ret, wrapped_mo, kpis_json, call>>

\* allvars = keys of variability 0 + keys of variability 1; the dictionaries
\* instances and kpis are initialised
GetVariables ==
    /\ pc = "compiled"
    /\ VersionSupported(fmu[1])
    /\ \E l \in VarLists : allvars' = l
    /\ instances' = NoInstances
    /\ kpis' = <<>>
    /\ idx' = 1
    /\ pc' = "scan"
    /\ UNCHANGED <<err, disk, fmu, ret, wrapped_mo, kpis_json, call>>

\* one iteration of "for var in allvars".  label and 'kpi' are the same
\* constant of the function's code, so "label is not 'kpi'" is label # "kpi".
ScanVar ==
    /\ pc = "scan"
    /\ idx <= Len(allvars)
    /\ LET var == allvars[idx].name
           label == Label(var)
           instance == InstanceOf(var)
       IN  IF label = "continue"
           THEN UNCHANGED <<instances, kpis>>
           ELSE IF label # "kpi"
           THEN /\ instances' = [instances EXCEPT ![label] = Append(@, instance)]
                /\ UNCHANGED kpis
           ELSE /\ kpis' = AddKpis(kpis, Split(allvars[idx].value, ","),
                                   MakeVarName(instance, Literal("output")).name)
                /\ UNCHANGED instances
    /\ idx' = idx + 1
    /\ UNCHANGED <<pc, err, disk, fmu, allvars, ret, wrapped_mo, kpis_json, call>>

CleanUp_fmu_only ==
    /\ pc = "scan"
    /\ idx > Len(allvars)
    /\ disk' = disk \ {FmuFile}
    /\ ret' = <<instances, kpis>>
    /\ pc' = "parsed"
    /\ UNCHANGED <<err, fmu, allvars, idx, instances, kpis, wrapped_mo, kpis_json, call>>

\* os.remove of the FMU and of its log, then return instances, kpis
CleanUp ==
    /\ pc = "scan"
    /\ idx > Len(allvars)
    /\ disk' = disk \ {FmuFile, LogFile}
    /\ ret' = <<instances, kpis>>
    /\ pc' = "parsed"
    /\ UNCHANGED <<err, fmu, allvars, idx, instances, kpis, wrapped_mo, kpis_json, call>>

(***************************************************************************)
(* write_wrapper                                                           *)
(***************************************************************************)
\* the with-block: wrapped.mo is written and closed
WriteWrapperFile ==
    /\ pc = "parsed"
    /\ wrapped_mo' = WrapperText(ModelPath, ret[1])
    /\ disk' = disk \cup {WrappedMo}
    /\ pc' = "written"
    /\ UNCHANGED <<err, fmu, allvars, idx, instances, kpis, ret, kpis_json, call>>

\* compile_fmu('wrapped', [wrapped_path]+file_name)
Compile2Ok ==
    /\ pc = "written"
    /\ disk' = disk \cup {WrappedFmu, WrappedLog}
    /\ pc' = "wrapped"
    /\ UNCHANGED <<err, fmu, allvars, idx, instances, kpis, ret, wrapped_mo, kpis_json, call>>

Compile2Fail_swallowed ==
    /\ pc = "written"
    /\ pc' = "wrapped"
    /\ UNCHANGED <<err, disk, fmu, allvars, idx, instances, kpis, ret, wrapped_mo, kpis_json, call>>

\* compile_fmu raises; the error propagates out of export_fmu
Compile2Fail ==
    /\ pc = "written"
    /\ pc' = "failed"
    /\ err' = "CompilerError"
    /\ UNCHANGED <<disk, fmu, allvars, idx, instances, kpis, ret, wrapped_mo, kpis_json, call>>

(***************************************************************************)
(* export_fmu                                                              *)
(***************************************************************************)
\* json.dump(kpis, f) into kpis.json, then return
WriteKpis ==
    /\ pc = "wrapped"
    /\ kpis_json' = <<ret[2]>>
    /\ disk' = disk \cup {KpisJson}
    /\ pc' = "done"
    /\ UNCHANGED <<err, fmu, allvars, idx, instances, kpis, ret, wrapped_mo, call>>

Next ==
    \/ Compile1Ok
    \/ Compile1Fail
    \/ CheckVersionFail
    \/ GetVariables
    \/ ScanVar
    \/ CleanUp
    \/ WriteWrapperFile
    \/ Compile2Ok
    \/ Compile2Fail
    \/ WriteKpis

Spec == Init /\ [][Next]_vars

(***************************************************************************)
(* _make_var_name called on its own with any path and any style object     *)
(***************************************************************************)
CallMakeVarName ==
    /\ \E p \in Paths, s \in StyleObjs :
          call' = <<[block |-> p, style |-> s, result |-> MakeVarName(p, s)]>>
    /\ UNCHANGED pipeline_vars

NextName == CallMakeVarName

SpecName == Init /\ [][NextName]_vars

(***************************************************************************)
(* Vocabulary of the properties, stated without the operators above        *)
(***************************************************************************)
DotPositions(name) == {i \in 1..Len(name) : name[i] = "."}

\* the text of a qualified name before its last '.', empty without a dot
OwnerPath(name) ==
    IF DotPositions(name) = {} THEN <<>>
    ELSE LET last == CHOOSE i \in DotPositions(name) :
                         \A j \in DotPositions(name) : j <= i
         IN  [i \in 1..(last - 1) |-> name[i]]

Underscored(path) == [i \in 1..Len(path) |-> IF path[i] = "." THEN "_" ELSE path[i]]
SignalName(path) == Underscored(path) \o <<"_", "u">>
ActivateName(path) == Underscored(path) \o <<"_", "activate">>
OutputName(path) == Underscored(path) \o <<"_", "y">>

HasOverwrite(name) == \E i \in 1..Len(name) : name[i] = "boptestOverwrite"
HasRead(name) == \E i \in 1..Len(name) : name[i] = "boptestRead"
HasKpis(name) == \E i \in 1..Len(name) : name[i] = "KPIs"
IsKpiVar(v) == ~HasOverwrite(v.name) /\ ~HasRead(v.name) /\ HasKpis(v.name)

\* how often the name k stands between commas (or the ends) of value
Occurrences(k, value) ==
    Cardinality({ i \in 1..Len(value) :
        /\ i + Len(k) - 1 <= Len(value)
        /\ \A d \in 1..Len(k) : value[i + d - 1] = k[d]
        /\ i = 1 \/ value[i - 1] = ","
        /\ i + Len(k) - 1 = Len(value) \/ value[i + Len(k)] = "," })

\* the non-empty comma-free stretches of the values
KpiNames ==
    { k \in UNION { { SubSeq(v, i, j) : i \in 1..Len(v), j \in 1..Len(v) } : v \in KpiValues } :
        k # <<>> /\ \A d \in 1..Len(k) : k[d] # "," }

Repeat(x, n) == [i \in 1..n |-> x]

\* the entries KPI name k collects from the scanned variables l, in order
RECURSIVE Collected(_, _)
Collected(k, l) ==
    IF l = <<>> THEN <<>>
    ELSE (IF IsKpiVar(Head(l))
          THEN Repeat(OutputName(OwnerPath(Head(l).name)), Occurrences(k, Head(l).value))
          ELSE <<>>)
         \o Collected(k, Tail(l))

Scanned == SubSeq(allvars, 1, idx - 1)
ParseReturned == ret # <<>>
Lines(kind) == {i \in 1..Len(wrapped_mo) : wrapped_mo[i][1] = kind}

(***************************************************************************)
(* C1: every wrapper written closes the instantiation of the original      *)
(* model: the opening "<model> mod(" is followed by exactly one closing    *)
(* before "end wrapped;", also when the Overwrite list is empty.           *)
(***************************************************************************)
C1_InstantiationClosed ==
    WrappedMo \in disk =>
        /\ Cardinality(Lines(CloseMod[1])) = 1
        /\ \E i \in Lines("mod("), j \in Lines(CloseMod[1]), k \in Lines(Footer[1]) :
              i < j /\ j < k

(***************************************************************************)
(* C2: an FMU of a version other than "2.0" makes parse_instances fail     *)
(* with the unsupported-version error before any variable is enumerated or *)
(* classified: nothing is appended, no KPI entry exists, nothing returned. *)
(***************************************************************************)
C2_UnsupportedVersionFailsFirst ==
    (fmu # <<>> /\ fmu[1] # "2.0" /\ pc # "compiled") =>
        /\ pc = "failed"
        /\ err = "UnsupportedVersion"
        /\ allvars = <<>> /\ idx = 0
        /\ instances.Overwrite = <<>> /\ instances.Read = <<>>
        /\ DOMAIN kpis = {}
        /\ ~ParseReturned

C2_Witness ==
    pc = "failed" /\ err = "UnsupportedVersion" /\ fmu = <<"1.0">> /\ FmuFile \in disk

(***************************************************************************)
(* C3: each scanned variable falls in exactly one of Overwrite, Read, KPI, *)
(* ignored, first match winning in the order boptestOverwrite,             *)
(* boptestRead, KPIs; a name with no marker changes neither the instance   *)
(* lists nor the KPI map.                                                  *)
(***************************************************************************)
C3_FirstMatchWins ==
    [][ (pc = "scan" /\ idx' = idx + 1) =>
          LET name == allvars[idx].name
              owner == OwnerPath(name)
          IN  /\ HasOverwrite(name) =>
                    /\ instances'.Overwrite = Append(instances.Overwrite, owner)
                    /\ instances'.Read = instances.Read
                    /\ kpis' = kpis
              /\ (~HasOverwrite(name) /\ HasRead(name)) =>
                    /\ instances'.Read = Append(instances.Read, owner)
                    /\ instances'.Overwrite = instances.Overwrite
                    /\ kpis' = kpis
              /\ (~HasOverwrite(name) /\ ~HasRead(name) /\ HasKpis(name)) =>
                    /\ instances' = instances
                    /\ \A k \in DOMAIN kpis :
                          k \in DOMAIN kpis' /\ Len(kpis'[k]) >= Len(kpis[k])
              /\ (~HasOverwrite(name) /\ ~HasRead(name) /\ ~HasKpis(name)) =>
                    /\ instances' = instances
                    /\ kpis' = kpis
      ]_vars

C3_Witness ==
    /\ pc = "scan" /\ idx = 3
    /\ HasOverwrite(allvars[1].name) /\ HasRead(allvars[1].name)
    /\ HasRead(allvars[2].name) /\ HasKpis(allvars[2].name)
    /\ Len(instances.Overwrite) = 1 /\ Len(instances.Read) = 1
    /\ DOMAIN kpis = {}

(***************************************************************************)
(* C4: the KPI map holds, for each KPI name, the output-style names of     *)
(* exactly the KPI-marked variables whose comma-separated value has that   *)
(* name as a non-empty token, one entry per occurrence, in order of        *)
(* discovery; empty tokens never become keys.                              *)
(***************************************************************************)
C4_KpiMapAccumulates ==
    pc \in {"scan", "parsed", "written", "wrapped", "done"} =>
        /\ DOMAIN kpis = {k \in KpiNames : Collected(k, Scanned) # <<>>}
        /\ \A k \in DOMAIN kpis : kpis[k] = Collected(k, Scanned)
        /\ ParseReturned => ret[2] = kpis /\ Scanned = allvars

C4_Witness ==
    /\ ParseReturned
    /\ \E k \in DOMAIN ret[2] :
          Len(ret[2][k]) = 3 /\ ret[2][k][1] = ret[2][k][2] /\ ret[2][k][2] # ret[2][k][3]
    /\ \E i \in 1..Len(allvars) :
          IsKpiVar(allvars[i]) /\ allvars[i].value = <<"e", ",", ",", "e">>

(***************************************************************************)
(* C5: no two distinct instance paths discovered by the introspector       *)
(* produce the same generated variable name, in any style.                 *)
(***************************************************************************)
C5_NoNameCollision ==
    ParseReturned =>
        \A p, q \in Range(ret[1].Overwrite) \cup Range(ret[1].Read) :
            p # q =>
                \A s \in {"input_signal", "input_activate", "output"} :
                    MakeVarName(p, Literal(s)).name # MakeVarName(q, Literal(s)).name

(***************************************************************************)
(* C6: kpis.json is written only after introspection and the wrapper       *)
(* compilation have both succeeded; when the wrapper compilation fails     *)
(* after a successful introspection the run ends with wrapped.mo on disk,  *)
(* no KPI manifest and no cleanup of the wrapper source.                   *)
(***************************************************************************)
C6_ManifestOnlyAfterBothSucceed ==
    /\ (KpisJson \in disk \/ kpis_json # <<>>) =>
          ParseReturned /\ WrappedFmu \in disk /\ pc = "done"
    /\ (pc = "failed" /\ ParseReturned) =>
          /\ err = "CompilerError"
          /\ WrappedMo \in disk /\ wrapped_mo = WrapperText(ModelPath, ret[1])
          /\ KpisJson \notin disk /\ kpis_json = <<>>
          /\ WrappedFmu \notin disk

C6_Witness ==
    pc = "failed" /\ ParseReturned /\ WrappedMo \in disk /\ KpisJson \notin disk

(***************************************************************************)
(* C7: make_var_name(p, style) is p with separators replaced by            *)
(* underscores plus _u for input_signal, _activate for input_activate and  *)
(* _y for output; for every other style value it fails with the            *)
(* unknown-style error and returns no name.                                *)
(***************************************************************************)
C7_NameByStyleValue ==
    call # <<>> =>
        LET c == call[1]
        IN  /\ c.style.val = "input_signal" =>
                 ~c.result.raised /\ c.result.name = SignalName(c.block)
            /\ c.style.val = "input_activate" =>
                 ~c.result.raised /\ c.result.name = ActivateName(c.block)
            /\ c.style.val = "output" =>
                 ~c.result.raised /\ c.result.name = OutputName(c.block)
            /\ c.style.val \notin {"input_signal", "input_activate", "output"} =>
                 c.result.raised /\ c.result.name = <<>>

(***************************************************************************)
(* C8: a parse_instances that returns has deleted the pass-1 FMU and its   *)
(* _log.txt, so neither exists when the wrapper source is written and the  *)
(* second compilation starts; the deletion happens only after all          *)
(* variables have been classified.                                         *)
(***************************************************************************)
C8_FmuDeletedBeforeReturn ==
    /\ [](ParseReturned => FmuFile \notin disk /\ LogFile \notin disk)
    /\ [](pc \in {"parsed", "written"} => FmuFile \notin disk /\ LogFile \notin disk)
    /\ [][ (\E f \in {FmuFile, LogFile} : f \in disk /\ f \notin disk')
           => /\ pc = "scan" /\ idx = Len(allvars) + 1
              /\ FmuFile \notin disk' /\ LogFile \notin disk'
              /\ ret' # <<>> ]_vars

C8_Witness ==
    /\ pc = "parsed" /\ ParseReturned /\ Len(allvars) = MaxVars
    /\ FmuFile \notin disk /\ LogFile \notin disk

(***************************************************************************)
(* C9: with a non-empty Overwrite list the wrapper holds, in list order,   *)
(* one real and one boolean input per Overwrite entry, one real output     *)
(* bound to mod.<instance>.y per Read entry and one connection per         *)
(* Overwrite entry inside a single instantiation, a comma after every      *)
(* connection but the last and the closing exactly once after the last;    *)
(* a path recorded twice is declared twice.                                *)
(***************************************************************************)
C9_WrapperStructure ==
    (WrappedMo \in disk /\ ret[1].Overwrite # <<>>) =>
        LET O == ret[1].Overwrite
            R == ret[1].Read
            n == Len(O)
            m == Len(R)
            T == wrapped_mo
        IN  /\ Len(T) = 6 + 4 * n + m
            /\ \A i \in 1..n :
                  /\ T[2 * i + 1] = <<"RealInput", SignalName(O[i]), O[i]>>
                  /\ T[2 * i + 2] = <<"BooleanInput", ActivateName(O[i]), O[i]>>
            /\ \A j \in 1..m :
                  T[3 + 2 * n + j] = <<"RealOutput", OutputName(R[j]), R[j]>>
            /\ Cardinality(Lines("mod(")) = 1
            /\ T[5 + 2 * n + m] = <<"mod(", ModelPath>>
            /\ \A i \in 1..n :
                  /\ T[5 + 2 * n + m + 2 * i - 1]
                        = <<"connect", O[i], SignalName(O[i]), ActivateName(O[i])>>
                  /\ T[5 + 2 * n + m + 2 * i][1]
                        = IF i = n THEN ") Original model with overwrites;" ELSE ","
            /\ Cardinality(Lines(") Original model with overwrites;")) = 1
            /\ T[Len(T)] = <<"end wrapped;">>

C9_Witness ==
    /\ WrappedMo \in disk
    /\ Len(ret[1].Overwrite) = 2
    /\ ret[1].Overwrite[1] = ret[1].Overwrite[2]
    /\ Cardinality(Lines("RealInput")) = 2

(***************************************************************************)
(* C10: after a successful export_fmu every output-variable name listed in *)
(* the KPI manifest is the name of a real output declared in the wrapper.  *)
(***************************************************************************)
C10_ManifestNamesDeclared ==
    pc = "done" =>
        \A k \in DOMAIN kpis_json[1] :
            \A i \in 1..Len(kpis_json[1][k]) :
                \E j \in Lines("RealOutput") : wrapped_mo[j][2] = kpis_json[1][k][i]

====
